---- MODULE Spec2Model ----
(***************************************************************************)
(* Model of the AI voice detection API tester:                             *)
(*   components/api_tester.py  APITester (build_payload, build_headers,    *)
(*                             send_request, get_result), TestResult       *)
(*   components/validators.py  interpret_status_code,                      *)
(*                             validate_response_schema                    *)
(*                                                                         *)
(* Conventions.  A Python str is a sequence of pieces; a piece is a        *)
(* non-empty TLA+ string (a single character, or a literal of the source   *)
(* kept whole).  "" is << >>.  Whitespace is the piece " ".                *)
(***************************************************************************)
EXTENDS Integers, Sequences, FiniteSets, TLC

VARIABLES pc, self, args, clock, net, payload, result,
          status_code, status_info, response, report,
          inputs, checked, validation_errors

vars == <<pc, self, args, clock, net, payload, result,
          status_code, status_info, response, report,
          inputs, checked, validation_errors>>

(***************************************************************************)
(* Bounds                                                                  *)
(***************************************************************************)
MaxStrLen == 2
MaxClock == 1
Slack == 2
MaxExtra == 1

(***************************************************************************)
(* Python str helpers                                                      *)
(***************************************************************************)
Min(a, b) == IF a <= b THEN a ELSE b

\* s[:n] for n >= 0
Slice(s, n) == SubSeq(s, 1, Min(n, Len(s)))

IsSpace(c) == c = " "

RECURSIVE lstrip(_)
lstrip(s) == IF s # << >> /\ IsSpace(Head(s)) THEN lstrip(Tail(s)) ELSE s

RECURSIVE rstrip(_)
rstrip(s) ==
    IF s # << >> /\ IsSpace(s[Len(s)]) THEN rstrip(SubSeq(s, 1, Len(s) - 1)) ELSE s

\* str.strip()
strip(s) == rstrip(lstrip(s))

\* all strings over the alphabet A of length at most n
StringsUpTo(A, n) == UNION {[1..k -> A] : k \in 0..n}

\* a text of n characters
Text(n) == [i \in 1..n |-> "x"]

RECURSIVE DecimalDigits(_)
\* str(n) for an int n >= 0
DecimalDigits(n) ==
    LET d == <<"0", "1", "2", "3", "4", "5", "6", "7", "8", "9">>[(n % 10) + 1]
    IN IF n < 10 THEN <<d>> ELSE Append(DecimalDigits(n \div 10), d)

None == [t |-> "NoneType"]
NoValue == [t |-> "unset"]

(***************************************************************************)
(* APITester.__init__                                                      *)
(***************************************************************************)
APITester(endpoint_url, api_key, timeout) ==
    [endpoint_url |-> strip(endpoint_url),
     api_key      |-> strip(api_key),
     timeout      |-> timeout]

(***************************************************************************)
(* APITester.build_payload                                                 *)
(***************************************************************************)
\* time.strftime("%Y-%m-%dT%H:%M:%SZ", time.gmtime()) at wall-clock instant t
Timestamp(t) == <<"%Y-%m-%dT%H:%M:%SZ", DecimalDigits(t)>>

build_payload_both(audio_mode, audio_url, audio_base64, language, message, t) ==
    LET base == [language |-> language,
                 metadata |-> [message   |-> IF message # << >> THEN message
                                             ELSE <<"API Test Request">>,
                               timestamp |-> Timestamp(t),
                               tester    |-> <<"AI Voice API Tester v2.0">>]]
        url == IF audio_mode = "url" \/ strip(audio_url) # << >>
               THEN "audio_url" :> strip(audio_url) ELSE base
        b64 == IF audio_mode # "url"
               THEN "audio_base64" :> strip(audio_base64) ELSE base
    IN url @@ b64 @@ base

build_payload(audio_mode, audio_url, audio_base64, language, message, t) ==
    LET base == [language |-> language,
                 metadata |-> [message   |-> IF message # << >> THEN message
                                             ELSE <<"API Test Request">>,
                               timestamp |-> Timestamp(t),
                               tester    |-> <<"AI Voice API Tester v2.0">>]]
    IN IF audio_mode = "url"
       THEN ("audio_url" :> strip(audio_url)) @@ base
       ELSE ("audio_base64" :> strip(audio_base64)) @@ base

(***************************************************************************)
(* APITester.build_headers                                                 *)
(***************************************************************************)
build_headers(tester) ==
    [ContentType   |-> <<"application/json">>,
     Accept        |-> <<"application/json">>,
     Authorization |-> <<"Bearer ">> \o tester.api_key]

(***************************************************************************)
(* TestResult and the outcomes of requests.post                            *)
(***************************************************************************)
RawLimit == 2000
ConnErrLimit == 500
\* latency_ms is kept in hundredths of a millisecond (round(latency_ms, 2))
LatencyUnit == 100

TestResult(success, code, latency_ms, response_data, error_message, raw_response) ==
    [success       |-> success,
     status_code   |-> code,
     latency_ms    |-> latency_ms,
     response_data |-> response_data,
     error_message |-> error_message,
     raw_response  |-> raw_response]

\* round((end_time - start_time) * 1000, 2) for an elapsed time in microseconds
RoundLatency(elapsed_us) ==
    LET q == elapsed_us \div 10
        r == elapsed_us % 10
    IN IF r > 5 \/ (r = 5 /\ q % 2 = 1) THEN q + 1 ELSE q

\* the classes an exception raised inside the try block is an instance of
Ancestors(cls) ==
    CASE cls = "ConnectTimeout" ->
             {"ConnectTimeout", "ConnectionError", "Timeout", "RequestException", "Exception"}
      [] cls = "ReadTimeout" ->
             {"ReadTimeout", "Timeout", "RequestException", "Exception"}
      [] cls = "ConnectionError" ->
             {"ConnectionError", "RequestException", "Exception"}
      [] cls = "SSLError" ->
             {"SSLError", "ConnectionError", "RequestException", "Exception"}
      [] cls = "TooManyRedirects" ->
             {"TooManyRedirects", "RequestException", "Exception"}
      [] cls = "InvalidURL" ->
             {"InvalidURL", "RequestException", "ValueError", "Exception"}
      [] cls = "UnicodeEncodeError" ->
             {"UnicodeEncodeError", "UnicodeError", "ValueError", "Exception"}

ExceptionClasses ==
    {"ConnectTimeout", "ReadTimeout", "ConnectionError", "SSLError",
     "TooManyRedirects", "InvalidURL", "UnicodeEncodeError"}

\* the except clauses of send_request, in source order
Handlers_ConnectionFirst == <<"ConnectionError", "Timeout", "RequestException", "Exception">>

Handlers_NoCatchAll == <<"Timeout", "ConnectionError", "RequestException">>

Handlers == <<"Timeout", "ConnectionError", "RequestException", "Exception">>

\* the first except clause that matches, "" when none does
Matching(cls) ==
    LET hit == {i \in 1..Len(Handlers) : Handlers[i] \in Ancestors(cls)}
    IN IF hit = {} THEN ""
       ELSE Handlers[CHOOSE i \in hit : \A j \in hit : i <= j]

\* response.json() inside its own try/except
ParsedBody(json) == IF json.t = "JSONDecodeError" THEN None ELSE json

OnResponse_Inclusive(resp) ==
    TestResult(200 <= resp.status_code /\ resp.status_code <= 300,
               resp.status_code,
               RoundLatency(resp.elapsed_us),
               ParsedBody(resp.json),
               << >>,
               Slice(resp.text, RawLimit))

OnResponse_Unbounded(resp) ==
    TestResult(200 <= resp.status_code /\ resp.status_code < 300,
               resp.status_code,
               RoundLatency(resp.elapsed_us),
               ParsedBody(resp.json),
               << >>,
               resp.text)

OnResponse(resp) ==
    TestResult(200 <= resp.status_code /\ resp.status_code < 300,
               resp.status_code,
               RoundLatency(resp.elapsed_us),
               ParsedBody(resp.json),
               << >>,
               Slice(resp.text, RawLimit))

TimeoutMessage(timeout) ==
    <<"Request timed out after ">> \o DecimalDigits(timeout) \o <<" seconds">>

OnTimeout(tester) ==
    TestResult(FALSE, 408, tester.timeout * 1000 * LatencyUnit, None,
               TimeoutMessage(tester.timeout), << >>)

ConnectionMessage ==
    <<"Connection failed: Unable to reach the endpoint. Check if URL is correct.">>

OnConnectionError_AsTimeout(tester, e) ==
    TestResult(FALSE, 408, 0, None, ConnectionMessage, Slice(e, ConnErrLimit))

OnConnectionError(tester, e) ==
    TestResult(FALSE, 0, 0, None, ConnectionMessage, Slice(e, ConnErrLimit))

RequestFailedMessage(e) == <<"Request failed: ">> \o e

OnRequestException_Bare(e) ==
    TestResult(FALSE, 0, 0, None, e, << >>)

OnRequestException(e) ==
    TestResult(FALSE, 0, 0, None, RequestFailedMessage(e), << >>)

UnexpectedMessage(e) == <<"Unexpected error: ">> \o e

OnException(e) ==
    TestResult(FALSE, 0, 0, None, UnexpectedMessage(e), << >>)

(***************************************************************************)
(* APITester.send_request                                                  *)
(* out is what requests.post does: a response, or an exception of class    *)
(* out.cls whose str() is out.text.  The value is the returned TestResult, *)
(* or the exception that leaves the method.                                *)
(***************************************************************************)
send_request(tester, a, t, out) ==
    LET body    == build_payload(a.audio_mode, a.audio_url, a.audio_base64,
                                 a.language, a.message, t)
        headers == build_headers(tester)
        h       == Matching(out.cls)
    IN IF out.kind = "response"
       THEN [returned |-> TRUE, sent |-> body, value |-> OnResponse(out)]
       ELSE CASE h = "Timeout" ->
                     [returned |-> TRUE, sent |-> body, value |-> OnTimeout(tester)]
              [] h = "ConnectionError" ->
                     [returned |-> TRUE, sent |-> body,
                      value |-> OnConnectionError(tester, out.text)]
              [] h = "RequestException" ->
                     [returned |-> TRUE, sent |-> body,
                      value |-> OnRequestException(out.text)]
              [] h = "Exception" ->
                     [returned |-> TRUE, sent |-> body, value |-> OnException(out.text)]
              [] OTHER ->
                     [returned |-> FALSE, sent |-> body, value |-> [t |-> out.cls]]

\* get_result: alias for send_request
get_result(tester, a, t, out) == send_request(tester, a, t, out)

(***************************************************************************)
(* Inputs                                                                  *)
(***************************************************************************)
AudioModes == {"url", "base64", "file"}
InputStrings == StringsUpTo({" ", "a"}, MaxStrLen)
Languages == {<<"auto">>, <<"en">>}
Messages == {<< >>, <<"m">>}
Clocks == 0..MaxClock

CallArgs ==
    [audio_mode : AudioModes, audio_url : InputStrings,
     audio_base64 : InputStrings, language : Languages, message : Messages]

Idle ==
    /\ net = NoValue
    /\ payload = NoValue
    /\ result = NoValue
    /\ status_code = 0
    /\ status_info = NoValue
    /\ response = NoValue
    /\ report = NoValue
    /\ inputs = NoValue
    /\ checked = NoValue
    /\ validation_errors = NoValue

(***************************************************************************)
(* Specification of build_payload: any arguments, then one call            *)
(***************************************************************************)
InitPayload ==
    /\ pc = "ready"
    /\ self = APITester(<<"h">>, <<"k">>, 15)
    /\ args \in CallArgs
    /\ clock \in Clocks
    /\ Idle

BuildPayload ==
    /\ pc = "ready"
    /\ payload' = build_payload(args.audio_mode, args.audio_url, args.audio_base64,
                                args.language, args.message, clock)
    /\ pc' = "built"
    /\ UNCHANGED <<self, args, clock, net, result, status_code, status_info,
                   response, report,
                   inputs, checked, validation_errors>>

NextPayload == BuildPayload

SpecPayload == InitPayload /\ [][NextPayload]_vars

\* C1: every payload built by build_payload has exactly one of the keys
\* audio_url and audio_base64: audio_url exactly when audio_mode is "url",
\* audio_base64 otherwise, whatever the two audio arguments hold.
C1_ExactlyOneAudioKey ==
    pc = "built" =>
        /\ ("audio_url" \in DOMAIN payload) # ("audio_base64" \in DOMAIN payload)
        /\ ("audio_url" \in DOMAIN payload) <=> (args.audio_mode = "url")
        /\ ("audio_base64" \in DOMAIN payload) <=> (args.audio_mode # "url")

\* a payload built when both audio arguments are non-empty and the mode is
\* neither "url" nor "base64"
C1_Witness ==
    /\ pc = "built"
    /\ args.audio_mode = "file"
    /\ strip(args.audio_url) # << >>
    /\ strip(args.audio_base64) # << >>
    /\ "audio_base64" \in DOMAIN payload

(***************************************************************************)
(* Specification of send_request / get_result: one tester, one call, any   *)
(* outcome of requests.post                                                *)
(***************************************************************************)
Timeouts == {5, 15, 30}

EmptyMap == [k \in {} |-> None]

Str(s) == [t |-> "str", v |-> s]

\* what response.json() gives: a failure to decode, or the decoded value
JsonOutcomes ==
    {[t |-> "JSONDecodeError"],
     None,
     [t |-> "dict", items |-> EmptyMap],
     [t |-> "dict", items |-> ("status" :> Str(<<"success">>))],
     [t |-> "list", items |-> <<Str(<<"success">>)>>]}

ServerCodes == {100, 199, 200, 201, 299, 300, 404, 408, 500, 999}

BodyLens == {0, 1} \cup ((RawLimit - 1)..(RawLimit + Slack))

ErrLens == {0, 1} \cup ((ConnErrLimit - 1)..(ConnErrLimit + Slack)) \cup {RawLimit + Slack}

ElapsedUs == {0, 123455, 30000001}

Responses ==
    [kind : {"response"}, cls : {""}, status_code : ServerCodes,
     text : {Text(n) : n \in BodyLens}, json : JsonOutcomes, elapsed_us : ElapsedUs]

Raises ==
    [kind : {"raise"}, cls : ExceptionClasses, status_code : {0},
     text : {Text(n) : n \in ErrLens}, json : {None}, elapsed_us : {0}]

SendArgs ==
    [audio_mode : {"url", "base64"}, audio_url : {<<"a">>}, audio_base64 : {<<"a">>},
     language : {<<"auto">>}, message : {<< >>}]

InitSend ==
    /\ pc \in {"ready", "ready_alias"}
    /\ self \in {APITester(<<"h">>, <<"k", " ">>, t) : t \in Timeouts}
    /\ args \in SendArgs
    /\ clock = 0
    /\ Idle

Call(r) ==
    /\ payload' = r.sent
    /\ result' = r.value
    /\ pc' = IF r.returned THEN "returned" ELSE "raised"
    /\ UNCHANGED <<self, args, clock, status_code, status_info, response, report,
                   inputs, checked, validation_errors>>

SendRequest ==
    /\ pc = "ready"
    /\ \E out \in Responses \cup Raises :
          /\ net' = out
          /\ Call(send_request(self, args, clock, out))

GetResult ==
    /\ pc = "ready_alias"
    /\ \E out \in Responses \cup Raises :
          /\ net' = out
          /\ Call(get_result(self, args, clock, out))

NextSend == SendRequest \/ GetResult

SpecSend == InitSend /\ [][NextSend]_vars

IsTestResult(r) ==
    /\ DOMAIN r = {"success", "status_code", "latency_ms", "response_data",
                   "error_message", "raw_response"}
    /\ r.success \in BOOLEAN
    /\ r.status_code \in Int
    /\ r.latency_ms \in Nat
    /\ r.response_data.t \in {"NoneType", "dict", "list", "str", "int", "float", "bool"}
    /\ r.error_message \in Seq(STRING)
    /\ r.raw_response \in Seq(STRING)

\* C2: send_request and get_result never let an exception out: whatever
\* requests.post does (a response of any status, a timeout, a connection
\* failure, any other exception), the call returns a TestResult with its six
\* fields set.
C2_NeverPropagates ==
    /\ pc # "raised"
    /\ pc = "returned" => IsTestResult(result)

\* a call returned although requests.post raised an exception that is not a
\* RequestException
C2_Witness ==
    /\ pc = "returned"
    /\ net.kind = "raise"
    /\ "RequestException" \notin Ancestors(net.cls)
    /\ result.error_message = UnexpectedMessage(net.text)

TimedOut == net.kind = "raise" /\ "Timeout" \in Ancestors(net.cls)

\* C3: when requests.post times out, also while connecting, the result has
\* success false, status code 408 (not the sentinel 0), latency_ms equal to
\* timeout * 1000, no parsed body and an error message naming the timeout in
\* seconds.
C3_TimeoutResult ==
    (pc = "returned" /\ TimedOut) =>
        /\ result.success = FALSE
        /\ result.status_code = 408
        /\ result.status_code # 0
        /\ result.latency_ms = self.timeout * 1000 * LatencyUnit
        /\ result.response_data = None
        /\ result.error_message =
              <<"Request timed out after ">> \o DecimalDigits(self.timeout) \o <<" seconds">>

\* a connect timeout, which is a ConnectionError too, was reported as a timeout
C3_Witness ==
    /\ pc = "returned"
    /\ net.kind = "raise"
    /\ net.cls = "ConnectTimeout"
    /\ self.timeout = 30
    /\ result.status_code = 408

ConnectFailed ==
    /\ net.kind = "raise"
    /\ "ConnectionError" \in Ancestors(net.cls)
    /\ "Timeout" \notin Ancestors(net.cls)

\* C4: when establishing the connection fails, the result has status code 0,
\* latency_ms 0, no parsed body, success false and a non-empty error message
\* that is neither the timeout message nor a generic-failure message.
C4_ConnectionFailureResult ==
    (pc = "returned" /\ ConnectFailed) =>
        /\ result.status_code = 0
        /\ result.latency_ms = 0
        /\ result.response_data = None
        /\ result.success = FALSE
        /\ result.error_message # << >>
        /\ \A t \in Timeouts : result.error_message # TimeoutMessage(t)
        /\ \A n \in ErrLens :
              /\ result.error_message # RequestFailedMessage(Text(n))
              /\ result.error_message # UnexpectedMessage(Text(n))

\* a refused connection was reported
C4_Witness ==
    /\ pc = "returned"
    /\ net.kind = "raise"
    /\ net.cls = "ConnectionError"
    /\ result.error_message = ConnectionMessage

\* C5: in every returned TestResult, success is true exactly when status_code
\* is in [200, 300).
C5_SuccessIffStatus2xx ==
    pc = "returned" =>
        (result.success <=> (200 <= result.status_code /\ result.status_code < 300))

\* a response with status 300 was reported as not successful, and one with
\* 299 as successful
C5_Witness ==
    /\ pc = "returned"
    /\ net.kind = "response"
    /\ result.status_code = 300
    /\ ~result.success

\* C6: in every returned TestResult, raw_response has at most 2000 characters.
C6_RawResponseBounded ==
    pc = "returned" => Len(result.raw_response) <= 2000

\* a response whose body is longer than the limit was reported
C6_Witness ==
    /\ pc = "returned"
    /\ net.kind = "response"
    /\ Len(net.text) > 2000
    /\ Len(result.raw_response) = 2000

(***************************************************************************)
(* interpret_status_code                                                   *)
(***************************************************************************)
Verdict(verdict, message, severity) ==
    [verdict |-> verdict, message |-> message, severity |-> severity]

\* str(n) for any int n
IntStr(n) == IF n < 0 THEN <<"-">> \o DecimalDigits(0 - n) ELSE DecimalDigits(n)

status_map ==
    (200 :> Verdict("PASS", <<"Success - API responded correctly">>, "success")) @@
    (201 :> Verdict("PASS", <<"Created - Request processed">>, "success")) @@
    (400 :> Verdict("FAIL", <<"Bad Request - Check your payload format">>, "error")) @@
    (401 :> Verdict("FAIL", <<"Unauthorized - Invalid or missing API key">>, "error")) @@
    (403 :> Verdict("FAIL", <<"Forbidden - API key lacks permissions">>, "error")) @@
    (404 :> Verdict("FAIL", <<"Not Found - Wrong endpoint URL">>, "error")) @@
    (405 :> Verdict("FAIL", <<"Method Not Allowed - Endpoint doesn't accept POST">>, "error")) @@
    (408 :> Verdict("FAIL", <<"Request Timeout - API took too long">>, "warning")) @@
    (422 :> Verdict("FAIL", <<"Unprocessable Entity - Invalid data format">>, "error")) @@
    (429 :> Verdict("FAIL", <<"Too Many Requests - Rate limit exceeded">>, "warning")) @@
    (500 :> Verdict("FAIL", <<"Internal Server Error - API crashed">>, "error")) @@
    (502 :> Verdict("FAIL", <<"Bad Gateway - Server unreachable">>, "error")) @@
    (503 :> Verdict("FAIL", <<"Service Unavailable - API is down">>, "error")) @@
    (504 :> Verdict("FAIL", <<"Gateway Timeout - Server didn't respond">>, "error"))

interpret_status_code_NoTable(code) ==
    IF 200 <= code /\ code < 300
    THEN Verdict("PASS", <<"Success (">> \o IntStr(code) \o <<")">>, "success")
    ELSE IF 400 <= code /\ code < 500
    THEN Verdict("FAIL", <<"Client Error (">> \o IntStr(code) \o <<")">>, "error")
    ELSE IF code >= 500
    THEN Verdict("FAIL", <<"Server Error (">> \o IntStr(code) \o <<")">>, "error")
    ELSE Verdict("UNKNOWN", <<"Unexpected status code: ">> \o IntStr(code), "warning")

interpret_status_code_Capped(code) ==
    IF code \in DOMAIN status_map
    THEN status_map[code]
    ELSE IF 200 <= code /\ code < 300
    THEN Verdict("PASS", <<"Success (">> \o IntStr(code) \o <<")">>, "success")
    ELSE IF 400 <= code /\ code < 500
    THEN Verdict("FAIL", <<"Client Error (">> \o IntStr(code) \o <<")">>, "error")
    ELSE IF code >= 500 /\ code < 600
    THEN Verdict("FAIL", <<"Server Error (">> \o IntStr(code) \o <<")">>, "error")
    ELSE Verdict("UNKNOWN", <<"Unexpected status code: ">> \o IntStr(code), "warning")

interpret_status_code(code) ==
    IF code \in DOMAIN status_map
    THEN status_map[code]
    ELSE IF 200 <= code /\ code < 300
    THEN Verdict("PASS", <<"Success (">> \o IntStr(code) \o <<")">>, "success")
    ELSE IF 400 <= code /\ code < 500
    THEN Verdict("FAIL", <<"Client Error (">> \o IntStr(code) \o <<")">>, "error")
    ELSE IF code >= 500
    THEN Verdict("FAIL", <<"Server Error (">> \o IntStr(code) \o <<")">>, "error")
    ELSE Verdict("UNKNOWN", <<"Unexpected status code: ">> \o IntStr(code), "warning")

(***************************************************************************)
(* Specification of interpret_status_code: any integer, then one call;     *)
(* a second call on the sentinel 0 gives the verdict to compare with       *)
(***************************************************************************)
MaxNegCode == 3
MaxCode == 1001

StatusCodes == (0 - MaxNegCode)..MaxCode

InitStatus ==
    /\ pc = "ready"
    /\ self = NoValue
    /\ args = NoValue
    /\ clock = 0
    /\ net = NoValue
    /\ payload = NoValue
    /\ result = NoValue
    /\ status_code \in StatusCodes
    /\ status_info = NoValue
    /\ response = NoValue
    /\ report = NoValue
    /\ inputs = NoValue
    /\ checked = NoValue
    /\ validation_errors = NoValue

Interpret ==
    /\ pc = "ready"
    /\ status_info' = interpret_status_code(status_code)
    /\ pc' = "interpreted"
    /\ UNCHANGED <<self, args, clock, net, payload, result, status_code, response,
                   report,
                   inputs, checked, validation_errors>>

\* the interpreter applied to the sentinel 0, kept in report for comparison
InterpretSentinel ==
    /\ pc = "interpreted"
    /\ report' = interpret_status_code(0)
    /\ pc' = "compared"
    /\ UNCHANGED <<self, args, clock, net, payload, result, status_code, status_info,
                   response,
                   inputs, checked, validation_errors>>

NextStatus == Interpret \/ InterpretSentinel

SpecStatus == InitStatus /\ [][NextStatus]_vars

Interpreted == pc \in {"interpreted", "compared"}

\* C7: interpret_status_code returns, for every integer, a verdict in
\* {PASS, FAIL, UNKNOWN} with a severity in {success, error, warning}:
\* PASS/success on [200,300), FAIL/warning on 408 and 429, FAIL/error on the
\* rest of [400,500) and on every code >= 500, UNKNOWN/warning elsewhere.
C7_StatusPolicy ==
    Interpreted =>
        LET c == status_code
            v == <<status_info.verdict, status_info.severity>>
        IN /\ DOMAIN status_info = {"verdict", "message", "severity"}
           /\ status_info.verdict \in {"PASS", "FAIL", "UNKNOWN"}
           /\ status_info.severity \in {"success", "error", "warning"}
           /\ (200 <= c /\ c < 300) => v = <<"PASS", "success">>
           /\ c \in {408, 429} => v = <<"FAIL", "warning">>
           /\ (400 <= c /\ c < 500 /\ c \notin {408, 429}) => v = <<"FAIL", "error">>
           /\ c >= 500 => v = <<"FAIL", "error">>
           /\ (c < 200 \/ (300 <= c /\ c < 400)) => v = <<"UNKNOWN", "warning">>

\* the interpreter ran on a client-side code that is in the table with a
\* severity of its own
C7_Witness ==
    /\ Interpreted
    /\ status_code = 429
    /\ status_info.severity = "warning"

\* C8 as stated: interpret_status_code(999) is UNKNOWN/warning, as for 0
C8_999IsUnknown ==
    (pc = "compared" /\ status_code = 999) =>
        /\ status_info.verdict = "UNKNOWN"
        /\ status_info.severity = "warning"
        /\ status_info.verdict = report.verdict
        /\ status_info.severity = report.severity

\* C8 as amended: interpret_status_code(999) is FAIL/error, the verdict of
\* every code >= 500, and differs in verdict and severity from
\* interpret_status_code(0), which is UNKNOWN/warning.
C8_999IsFail ==
    (pc = "compared" /\ status_code = 999) =>
        /\ status_info.verdict = "FAIL"
        /\ status_info.severity = "error"
        /\ report.verdict = "UNKNOWN"
        /\ report.severity = "warning"
        /\ status_info.verdict # report.verdict
        /\ status_info.severity # report.severity

\* the interpreter ran on 999 and on 0
C8_Witness ==
    /\ pc = "compared"
    /\ status_code = 999
    /\ status_info.message = <<"Server Error (", "9", "9", "9", ")">>
    /\ report.message = <<"Unexpected status code: ", "0">>

(***************************************************************************)
(* JSON values as Python objects                                           *)
(*   str   [t |-> "str", v |-> pieces]                                     *)
(*   int   [t |-> "int", m, e, nan]    the number m * 10^e (e >= 0)        *)
(*   float [t |-> "float", m, e, nan]  the number m * 10^e, or NaN         *)
(*   bool  [t |-> "bool", b]     None  [t |-> "NoneType"]                  *)
(*   list  [t |-> "list", items]       dict [t |-> "dict", items]          *)
(* t is type(x).__name__.                                                  *)
(***************************************************************************)
Num(t, m, e) == [t |-> t, m |-> m, e |-> e, nan |-> FALSE]
NaN == [t |-> "float", m |-> 0, e |-> 0, nan |-> TRUE]
Bool(b) == [t |-> "bool", b |-> b]

RECURSIVE Pow10(_)
Pow10(k) == IF k = 0 THEN 1 ELSE 10 * Pow10(k - 1)

Abs(n) == IF n < 0 THEN 0 - n ELSE n

\* largest decimal exponent of a finite float: sys.float_info.max is 1.79...e308
FloatMaxExp10 == 308

\* float(int) raises OverflowError when the int is beyond the largest float;
\* at exponent 308 mantissas with leading digit 1 convert (the model has no
\* int between 1.79e308 and 2e308)
IntTooLarge(m, e) ==
    LET lead == e + Len(DecimalDigits(Abs(m))) - 1
        first == Head(DecimalDigits(Abs(m)))
    IN m # 0 /\ (lead > FloatMaxExp10 \/ (lead = FloatMaxExp10 /\ first # "1"))

Digits == {"0", "1", "2", "3", "4", "5", "6", "7", "8", "9"}

DigitVal(c) == CHOOSE d \in 0..9 : DecimalDigits(d) = <<c>>

RECURSIVE DigitsVal(_)
\* int() of a sequence of decimal digits
DigitsVal(ds) ==
    IF ds = << >> THEN 0 ELSE 10 * DigitsVal(SubSeq(ds, 1, Len(ds) - 1)) + DigitVal(ds[Len(ds)])

Raised(exc) == [ok |-> FALSE, exc |-> exc, m |-> 0, e |-> 0, nan |-> FALSE]
Floated(m, e, nan) == [ok |-> TRUE, exc |-> "", m |-> m, e |-> e, nan |-> nan]

\* float(str): surrounding whitespace, an optional sign, decimal digits with at
\* most one point and at least one digit (exponents, inf and nan spellings
\* and underscores are not among the strings of the model)
ParseFloat(s) ==
    LET u      == strip(s)
        signed == u # << >> /\ Head(u) \in {"-", "+"}
        neg    == u # << >> /\ Head(u) = "-"
        body   == IF signed THEN Tail(u) ELSE u
        dots   == {i \in 1..Len(body) : body[i] = "."}
        dot    == IF dots = {} THEN Len(body) + 1 ELSE CHOOSE i \in dots : TRUE
        whole  == SubSeq(body, 1, dot - 1)
        frac   == SubSeq(body, dot + 1, Len(body))
        wellformed ==
            /\ Cardinality(dots) <= 1
            /\ \A i \in 1..Len(body) : body[i] \in Digits \cup {"."}
            /\ Len(whole) + Len(frac) >= 1
        mag    == DigitsVal(whole \o frac)
    IN IF wellformed
       THEN Floated(IF neg THEN 0 - mag ELSE mag, 0 - Len(frac), FALSE)
       ELSE Raised("ValueError")

\* float(x)
float(x) ==
    CASE x.t = "float" -> Floated(x.m, x.e, x.nan)
      [] x.t = "int"   -> IF IntTooLarge(x.m, x.e) THEN Raised("OverflowError")
                          ELSE Floated(x.m, x.e, FALSE)
      [] x.t = "bool"  -> Floated(IF x.b THEN 1 ELSE 0, 0, FALSE)
      [] x.t = "str"   -> ParseFloat(x.v)
      [] OTHER         -> Raised("TypeError")

\* conf < 0
LessThanZero(f) == ~f.nan /\ f.m < 0

GreaterThanOne_Inclusive(f) ==
    /\ ~f.nan
    /\ f.m > 0
    /\ IF f.e >= 0 THEN TRUE ELSE f.m >= Pow10(0 - f.e)

\* conf > 1
GreaterThanOne(f) ==
    /\ ~f.nan
    /\ f.m > 0
    /\ IF f.e >= 0 THEN f.m > 1 \/ f.e > 0 ELSE f.m > Pow10(0 - f.e)

\* bool(x) is False
Falsy(x) ==
    CASE x.t = "NoneType" -> TRUE
      [] x.t = "bool"     -> ~x.b
      [] x.t \in {"int", "float"} -> ~x.nan /\ x.m = 0
      [] x.t = "str"      -> x.v = << >>
      [] x.t \in {"list", "dict"} -> DOMAIN x.items = {}

\* not str(x).strip(): only a str can print as whitespace
BlankWhenPrinted(x) == x.t = "str" /\ strip(x.v) = << >>

\* x in words, for a list of str literals
InWords(x, words) == x.t = "str" /\ \E i \in 1..Len(words) : x.v = <<words[i]>>

(***************************************************************************)
(* validate_response_schema                                                *)
(***************************************************************************)
VALID_LANGUAGES == <<"auto", "en", "hi", "ta", "ml", "te">>

EXPECTED_SCHEMA ==
    [required_fields       |-> <<"status", "classification", "confidence", "explanation">>,
     optional_fields       |-> <<"language", "processing_time_ms">>,
     valid_status          |-> <<"success", "error">>,
     valid_classifications |-> <<"AI_GENERATED", "HUMAN", "UNKNOWN">>]

Range(s) == {s[i] : i \in 1..Len(s)}

\* the f-strings of the warnings
W_MISSING ==
    "Missing required field: '{field}'"
W_STATUS ==
    "Invalid status value: '{status}'. Expected: {valid_status}"
W_CLASSIFICATION ==
    "Invalid classification value: '{classification}'. Expected: {valid_classifications}"
W_DEPRECATED ==
    "Using deprecated 'result' field. Should use 'classification' instead."
W_RANGE ==
    "Confidence should be between 0 and 1, got: {conf}"
W_NOT_NUMBER ==
    "Confidence should be a number, got: {type}"
W_EXPLANATION ==
    "Explanation field is empty. Should provide reasoning for the classification."
W_LANGUAGE ==
    "Invalid language value: '{language}'. Expected: {VALID_LANGUAGES}"
W_EXTRA ==
    "Extra fields in response: {extra_fields}"

\* one warning string: the format it was built from and the value it carries
Warning(kind, arg) == [kind |-> kind, arg |-> arg]

Returned(is_valid, warnings) ==
    [raised |-> "", is_valid |-> is_valid, warnings |-> warnings]

Escaped(exc) == [raised |-> exc]

\* for field in required_fields: if field not in response: warn, is_valid = False
CheckRequired(data) ==
    LET Absent(field) == field \notin DOMAIN data
        missing == SelectSeq(EXPECTED_SCHEMA.required_fields, Absent)
    IN [is_valid |-> missing = << >>,
        warnings |-> [i \in 1..Len(missing) |->
                         Warning(W_MISSING, missing[i])]]

CheckStatus(data) ==
    IF "status" \in DOMAIN data
       /\ ~InWords(data["status"], EXPECTED_SCHEMA.valid_status)
    THEN <<Warning(W_STATUS,
                   data["status"])>>
    ELSE << >>

CheckClassification(data) ==
    IF "classification" \in DOMAIN data
       /\ ~InWords(data["classification"], EXPECTED_SCHEMA.valid_classifications)
    THEN <<Warning(W_CLASSIFICATION,
                   data["classification"])>>
    ELSE << >>

CheckDeprecated(data) ==
    IF "result" \in DOMAIN data /\ "classification" \notin DOMAIN data
    THEN <<Warning(W_DEPRECATED,
                   None)>>
    ELSE << >>

\* the try block around float(response["confidence"]): the warnings it adds,
\* or the exception that except (ValueError, TypeError) does not catch
CheckConfidence(data) ==
    IF "confidence" \in DOMAIN data
    THEN LET conf == float(data["confidence"])
         IN IF conf.ok
            THEN [raised |-> "",
                  warnings |-> IF LessThanZero(conf) \/ GreaterThanOne(conf)
                               THEN <<Warning(W_RANGE,
                                              conf)>>
                               ELSE << >>]
            ELSE IF conf.exc \in {"ValueError", "TypeError"}
            THEN [raised |-> "",
                  warnings |-> <<Warning(W_NOT_NUMBER,
                                         data["confidence"].t)>>]
            ELSE [raised |-> conf.exc, warnings |-> << >>]
    ELSE [raised |-> "", warnings |-> << >>]

CheckExplanation(data) ==
    IF "explanation" \in DOMAIN data
       /\ (Falsy(data["explanation"]) \/ BlankWhenPrinted(data["explanation"]))
    THEN <<Warning(W_EXPLANATION,
                   None)>>
    ELSE << >>

CheckLanguage(data) ==
    IF "language" \in DOMAIN data /\ ~InWords(data["language"], VALID_LANGUAGES)
    THEN <<Warning(W_LANGUAGE,
                   data["language"])>>
    ELSE << >>

CheckExtra(data) ==
    LET all_expected == Range(EXPECTED_SCHEMA.required_fields)
                            \cup Range(EXPECTED_SCHEMA.optional_fields) \cup {"result"}
        extra_fields == DOMAIN data \ all_expected
    IN IF extra_fields # {}
       THEN <<Warning(W_EXTRA, extra_fields)>>
       ELSE << >>

\* the value returned, or the exception that leaves the function
validate_response_schema(data) ==
    LET required == CheckRequired(data)
        conf     == CheckConfidence(data)
    IN IF conf.raised # "" THEN Escaped(conf.raised)
       ELSE Returned(required.is_valid,
                     required.warnings \o CheckStatus(data)
                         \o CheckClassification(data) \o CheckDeprecated(data)
                         \o conf.warnings \o CheckExplanation(data)
                         \o CheckLanguage(data) \o CheckExtra(data))

(***************************************************************************)
(* Specification of validate_response_schema: any response mapping, then   *)
(* one call                                                                *)
(***************************************************************************)
Absent == [t |-> "absent"]

Field(key, x) == IF x = Absent THEN EmptyMap ELSE key :> x

StatusValues == {Str(<<"success">>), Str(<<"ok">>), Num("int", 1, 0)}

ClassificationValues == {Str(<<"AI_GENERATED">>), Str(<<"FAKE">>)}

ConfidenceValues ==
    {Num("float", 82, -2), Num("int", 0, 0), Num("int", 1, 0), Num("float", 15, -1),
     Num("float", -1, -1), Num("int", 1, 308), Num("int", 2, 308), Num("float", 1, 400),
     NaN, Str(<<"0", ".", "5">>), Str(<<"abc">>), Bool(TRUE), None}

ExplanationValues == {Str(<<"x">>), Str(<< >>), Str(<<" ">>), None}

LanguageValues == {Str(<<"en">>), Str(<<"fr">>)}

ExtraNames == <<"request_id", "audio_format", "debug">>

ExtraKeys == {ExtraNames[i] : i \in 1..Min(MaxExtra, Len(ExtraNames))}

InitSchema ==
    /\ pc = "ready"
    /\ self = NoValue
    /\ args = NoValue
    /\ clock = 0
    /\ net = NoValue
    /\ payload = NoValue
    /\ result = NoValue
    /\ status_code = 0
    /\ status_info = NoValue
    /\ report = NoValue
    /\ inputs = NoValue
    /\ checked = NoValue
    /\ validation_errors = NoValue
    /\ \E s \in StatusValues \cup {Absent}, c \in ClassificationValues \cup {Absent},
          n \in ConfidenceValues \cup {Absent}, x \in ExplanationValues \cup {Absent},
          l \in LanguageValues \cup {Absent}, r \in {Str(<<"HUMAN">>), Absent},
          p \in {Num("int", 12, 0), Absent}, extra \in SUBSET ExtraKeys :
          response = Field("status", s) @@ Field("classification", c)
                        @@ Field("confidence", n) @@ Field("explanation", x)
                        @@ Field("language", l) @@ Field("result", r)
                        @@ Field("processing_time_ms", p)
                        @@ [k \in extra |-> Str(<<"v">>)]

ValidateSchema ==
    /\ pc = "ready"
    /\ report' = validate_response_schema(response)
    /\ pc' = "validated"
    /\ UNCHANGED <<self, args, clock, net, payload, result, status_code, status_info,
                   response,
                   inputs, checked, validation_errors>>

NextSchema == ValidateSchema

SpecSchema == InitSchema /\ [][NextSchema]_vars

SchemaReturned == pc = "validated" /\ report.raised = ""

RequiredMissing ==
    \E f \in {"status", "classification", "confidence", "explanation"} :
        f \notin DOMAIN response

\* C9: for every response mapping validate_response_schema returns, and the
\* is_valid it returns is false exactly when one of status, classification,
\* confidence, explanation is absent as a key; no other finding makes it
\* false.
C9_InvalidIffRequiredMissing ==
    pc = "validated" =>
        /\ report.raised = ""
        /\ (report.is_valid = FALSE) <=> RequiredMissing

WarningKey(w) ==
    CASE w.kind = W_MISSING ->
             CHOOSE j \in 1..4 :
                 <<"status", "classification", "confidence", "explanation">>[j] = w.arg
      [] w.kind = W_STATUS -> 5
      [] w.kind = W_CLASSIFICATION -> 6
      [] w.kind = W_DEPRECATED -> 7
      [] w.kind \in {W_RANGE, W_NOT_NUMBER} -> 8
      [] w.kind = W_EXPLANATION -> 9
      [] w.kind = W_LANGUAGE -> 10
      [] w.kind = W_EXTRA -> 11

\* C10: for every response mapping validate_response_schema runs all its
\* checks and returns: the warnings come in one fixed order (missing status,
\* classification, confidence, explanation; then status value, classification
\* value, deprecated result, confidence, explanation, language, extra
\* fields), each at most once, and each check whose condition holds has its
\* warning in the list whatever the earlier checks found; the empty mapping
\* gives is_valid false and exactly the four missing-field warnings.
C10_FixedOrderNoShortCircuit ==
    pc = "validated" =>
        /\ report.raised = ""
        /\ LET W == report.warnings
                Has(kind) == \E i \in 1..Len(W) : W[i].kind = kind
                Has_(key) == key \in DOMAIN response
            IN /\ \A i, j \in 1..Len(W) : i < j => WarningKey(W[i]) < WarningKey(W[j])
               /\ \A f \in {"status", "classification", "confidence", "explanation"} :
                     (~Has_(f)) <=> \E i \in 1..Len(W) : W[i].kind = W_MISSING /\ W[i].arg = f
               /\ Has(W_STATUS) <=>
                     (Has_("status")
                      /\ response["status"] \notin {Str(<<"success">>), Str(<<"error">>)})
               /\ Has(W_CLASSIFICATION) <=>
                     (Has_("classification")
                      /\ response["classification"] \notin
                            {Str(<<"AI_GENERATED">>), Str(<<"HUMAN">>), Str(<<"UNKNOWN">>)})
               /\ Has(W_DEPRECATED) <=> (Has_("result") /\ ~Has_("classification"))
               /\ Has(W_NOT_NUMBER) <=> (Has_("confidence") /\ ~float(response["confidence"]).ok)
               /\ Has(W_RANGE) <=>
                     (/\ Has_("confidence")
                      /\ float(response["confidence"]).ok
                      /\ \/ LessThanZero(float(response["confidence"]))
                         \/ GreaterThanOne(float(response["confidence"])))
               /\ Has(W_EXPLANATION) <=>
                     (/\ Has_("explanation")
                      /\ \/ Falsy(response["explanation"])
                         \/ BlankWhenPrinted(response["explanation"]))
               /\ Has(W_LANGUAGE) <=>
                     (/\ Has_("language")
                      /\ response["language"] \notin
                            {Str(<<"auto">>), Str(<<"en">>), Str(<<"hi">>), Str(<<"ta">>),
                             Str(<<"ml">>), Str(<<"te">>)})
               /\ Has(W_EXTRA) <=>
                     (DOMAIN response \ {"status", "classification", "confidence",
                                         "explanation", "language", "processing_time_ms",
                                         "result"} # {})
               /\ response = EmptyMap =>
                     /\ report.is_valid = FALSE
                     /\ Len(W) = 4
                     /\ \A i \in 1..4 : W[i].kind = W_MISSING

\* a JSON number (not NaN) with 0 <= value <= 1
NumberInUnit(x) ==
    /\ x.t \in {"int", "float"}
    /\ ~x.nan
    /\ x.m >= 0
    /\ x.m = 0 \/ (IF x.e >= 0 THEN x.m = 1 /\ x.e = 0 ELSE x.m <= Pow10(0 - x.e))

\* a JSON number (not NaN) below 0 or above 1
NumberOutsideUnit(x) ==
    /\ x.t \in {"int", "float"}
    /\ ~x.nan
    /\ ~NumberInUnit(x)

\* all of the response but its confidence is as the schema expects
ConformingButConfidence ==
    /\ {"status", "classification", "confidence", "explanation"} \subseteq DOMAIN response
    /\ DOMAIN response \subseteq {"status", "classification", "confidence", "explanation",
                                  "language", "processing_time_ms"}
    /\ response["status"] \in {Str(<<"success">>), Str(<<"error">>)}
    /\ response["classification"] \in
          {Str(<<"AI_GENERATED">>), Str(<<"HUMAN">>), Str(<<"UNKNOWN">>)}
    /\ response["explanation"].t = "str" /\ strip(response["explanation"].v) # << >>
    /\ "language" \in DOMAIN response =>
          response["language"] \in {Str(<<"auto">>), Str(<<"en">>), Str(<<"hi">>),
                                    Str(<<"ta">>), Str(<<"ml">>), Str(<<"te">>)}

\* C11: a response with the four required fields, no key beyond them and
\* language and processing_time_ms, an allowed status and classification, a
\* confidence that is a number in [0, 1], a non-blank explanation and, if
\* present, an allowed language is valid and has no warning.
C11_ConformingIsClean ==
    (pc = "validated" /\ ConformingButConfidence /\ NumberInUnit(response["confidence"])) =>
        /\ report.raised = ""
        /\ report.is_valid = TRUE
        /\ report.warnings = << >>

\* a conforming response with confidence exactly 1, a language and a
\* processing time was validated
C11_Witness ==
    /\ pc = "validated"
    /\ ConformingButConfidence
    /\ response["confidence"] = Num("int", 1, 0)
    /\ {"language", "processing_time_ms"} \subseteq DOMAIN response
    /\ report.raised = ""
    /\ report.warnings = << >>

\* C12: a response that conforms but for a confidence that is a number below
\* 0 or above 1 is valid and has exactly one warning, the out-of-range
\* warning with that value.
C12_OutOfRangeOneWarning ==
    (pc = "validated" /\ ConformingButConfidence
        /\ NumberOutsideUnit(response["confidence"])) =>
        /\ report.raised = ""
        /\ report.is_valid = TRUE
        /\ Len(report.warnings) = 1
        /\ report.warnings[1].kind = W_RANGE
        /\ report.warnings[1].arg.m = response["confidence"].m
        /\ report.warnings[1].arg.e = response["confidence"].e

(***************************************************************************)
(* error_message over the paths of send_request (SpecSend)                 *)
(***************************************************************************)
\* C19: in every returned TestResult error_message is empty exactly when an
\* HTTP response was received; on every failure path error_message is
\* non-empty, response_data is None, success is false and status_code is 0 or
\* 408; so a result with status 408 is the client-side timeout exactly when
\* its error_message is non-empty and a server's 408 exactly when it is empty.
C19_ErrorMessageIffNoResponse ==
    pc = "returned" =>
        /\ (result.error_message = << >>) <=> (net.kind = "response")
        /\ net.kind = "raise" =>
              /\ result.error_message # << >>
              /\ result.response_data = None
              /\ result.success = FALSE
              /\ result.status_code \in {0, 408}
        /\ result.status_code = 408 =>
              /\ (result.error_message # << >>) <=> TimedOut
              /\ (result.error_message = << >>) <=>
                    (net.kind = "response" /\ net.status_code = 408)

\* a server answered 408 with a body, and the result has no error message
C19_Witness ==
    /\ pc = "returned"
    /\ net.kind = "response"
    /\ net.status_code = 408
    /\ result.status_code = 408
    /\ result.error_message = << >>

(***************************************************************************)
(* Input validators (validators.py).  A validator returns the pair         *)
(* (is_valid, error_message), kept as a record.                            *)
(***************************************************************************)
Pass == [is_valid |-> TRUE, error |-> << >>]
Fail(error) == [is_valid |-> FALSE, error |-> error]

\* pieces made only of scheme characters (letters, digits, "+", "-", ".")
SchemeWords ==
    {"http", "https", "HTTPS", "ftp", "x", "a", "q", "f",
     ".com", ".mp3", ".MP3", ".wav", ".ogg"}

\* pieces whose first character is an ASCII letter
LetterFirst == {"http", "https", "HTTPS", "ftp", "x", "a", "q", "f"}

\* str.lower() of one piece
LowerPiece(c) ==
    CASE c = "HTTPS" -> "https"
      [] c = ".MP3"  -> ".mp3"
      [] OTHER       -> c

\* str.lower()
lower(s) == [i \in 1..Len(s) |-> LowerPiece(s[i])]

\* s.find(c) as a position from 1, 0 when c is not in s
Find(s, cs) ==
    LET hit == {i \in 1..Len(s) : s[i] \in cs}
    IN IF hit = {} THEN 0 ELSE CHOOSE i \in hit : \A j \in hit : i <= j

\* urllib.parse.urlparse(url).  ok is FALSE when it raises ValueError
\* (a bracket in the host that does not close)
urlparse(url) ==
    LET Before(s, k) == IF k = 0 THEN s ELSE SubSeq(s, 1, k - 1)
        After(s, k)  == IF k = 0 THEN << >> ELSE SubSeq(s, k + 1, Len(s))
        From(s, k)   == IF k = 0 THEN << >> ELSE SubSeq(s, k, Len(s))
        \* the scheme, up to the first colon, and the rest
        HasScheme(u, colon) ==
            /\ colon > 1
            /\ u[1] \in LetterFirst
            /\ \A i \in 1..(colon - 1) : u[i] \in SchemeWords
        SplitScheme(u) ==
            IF HasScheme(u, Find(u, {":"}))
            THEN [scheme |-> lower(Before(u, Find(u, {":"}))),
                  rest   |-> After(u, Find(u, {":"}))]
            ELSE [scheme |-> << >>, rest |-> u]
        \* the network location, after // and up to the first of / ? #
        HasNetloc(rest) == Len(rest) >= 2 /\ rest[1] = "/" /\ rest[2] = "/"
        Netloc(after) == Before(after, Find(after, {"/", "?", "#"}))
        SplitNetloc(p) ==
            IF HasNetloc(p.rest)
            THEN [scheme |-> p.scheme,
                  netloc |-> Netloc(SubSeq(p.rest, 3, Len(p.rest))),
                  tail   |-> From(SubSeq(p.rest, 3, Len(p.rest)),
                                  Find(SubSeq(p.rest, 3, Len(p.rest)), {"/", "?", "#"}))]
            ELSE [scheme |-> p.scheme, netloc |-> << >>, tail |-> p.rest]
        \* the fragment, after the first #
        SplitFragment(p) ==
            [scheme |-> p.scheme, netloc |-> p.netloc,
             nofrag |-> Before(p.tail, Find(p.tail, {"#"})),
             fragment |-> After(p.tail, Find(p.tail, {"#"}))]
        \* the query, after the first ?
        SplitQuery(p) ==
            [ok |-> (Find(p.netloc, {"["}) # 0) = (Find(p.netloc, {"]"}) # 0),
             scheme |-> p.scheme, netloc |-> p.netloc,
             path |-> Before(p.nofrag, Find(p.nofrag, {"?"})),
             query |-> After(p.nofrag, Find(p.nofrag, {"?"})),
             fragment |-> p.fragment]
    IN SplitQuery(SplitFragment(SplitNetloc(SplitScheme(url))))

validate_url(url) ==
    IF url = << >> \/ strip(url) = << >>
    THEN Fail(<<"URL cannot be empty">>)
    ELSE LET parsed == urlparse(strip(url))
         IN IF ~parsed.ok
            THEN Fail(<<"URL parsing error: ", "Invalid IPv6 URL">>)
            ELSE IF parsed.scheme \notin {<<"http">>, <<"https">>}
            THEN Fail(<<"URL must start with http:// or https://">>)
            ELSE IF parsed.netloc = << >>
            THEN Fail(<<"Invalid URL format - missing domain">>)
            ELSE Pass

\* s.endswith(suffix) for a suffix that is one piece
EndsWith(s, suffix) == s # << >> /\ s[Len(s)] = suffix

\* s.split('?')[0]
BeforeQuery(s) == IF Find(s, {"?"}) = 0 THEN s ELSE SubSeq(s, 1, Find(s, {"?"}) - 1)

validate_audio_url(url) ==
    LET checked_url == validate_url(url)
        lower_url   == BeforeQuery(lower(url))
    IN IF ~checked_url.is_valid
       THEN Fail(checked_url.error)
       ELSE IF ~(EndsWith(lower_url, ".mp3") \/ EndsWith(lower_url, ".wav"))
       THEN Fail(<<"Audio URL must end with .mp3 or .wav">>)
       ELSE Pass

validate_api_key(api_key) ==
    IF api_key = << >> \/ strip(api_key) = << >>
    THEN Fail(<<"API Key cannot be empty">>)
    ELSE Pass

validate_language(language) ==
    IF \A i \in 1..Len(VALID_LANGUAGES) : language # <<VALID_LANGUAGES[i]>>
    THEN Fail(<<"Invalid language '">> \o language \o <<"'. Allowed: {VALID_LANGUAGES}">>)
    ELSE Pass

(***************************************************************************)
(* URL texts: optional blanks around scheme, host, path, extension, query  *)
(* and fragment, each of which may be missing                              *)
(***************************************************************************)
UrlTexts ==
    {lead \o scheme \o host \o path \o ext \o query \o frag \o trail :
        lead   \in {<< >>, <<" ">>},
        scheme \in {<< >>, <<"https", ":", "/", "/">>, <<"http", ":", "/", "/">>,
                    <<"HTTPS", ":", "/", "/">>, <<"ftp", ":", "/", "/">>,
                    <<"https", ":">>, <<"https", ":", "/">>},
        host   \in {<< >>, <<"x", ".com">>, <<"x", ".mp3">>, <<"[", "x">>},
        path   \in {<< >>, <<"/", "a">>},
        ext    \in {<< >>, <<".mp3">>, <<".MP3">>, <<".wav">>, <<".ogg">>},
        query  \in {<< >>, <<"?", "q">>, <<"?", "q", ".mp3">>},
        frag   \in {<< >>, <<"#", "f">>, <<"#", "f", ".mp3">>},
        trail  \in {<< >>, <<" ">>}}

(***************************************************************************)
(* Specification of validate_audio_url: any URL text, then one call        *)
(***************************************************************************)
Unused ==
    /\ self = NoValue
    /\ args = NoValue
    /\ clock = 0
    /\ net = NoValue
    /\ payload = NoValue
    /\ result = NoValue
    /\ status_code = 0
    /\ status_info = NoValue
    /\ response = NoValue
    /\ report = NoValue
    /\ validation_errors = NoValue

InitUrl ==
    /\ pc = "ready"
    /\ inputs \in [audio_url : UrlTexts]
    /\ checked = NoValue
    /\ Unused

ValidateAudioUrl ==
    /\ pc = "ready"
    /\ checked' = validate_audio_url(inputs.audio_url)
    /\ pc' = "checked"
    /\ UNCHANGED <<self, args, clock, net, payload, result, status_code, status_info,
                   response, report, inputs, validation_errors>>

NextUrl == ValidateAudioUrl

SpecUrl == InitUrl /\ [][NextUrl]_vars

\* the path component of the URL ends in .mp3 or .wav, whatever the case
PathEndsInAudio(url) ==
    LET path == lower(urlparse(strip(url)).path)
    IN EndsWith(path, ".mp3") \/ EndsWith(path, ".wav")

\* C16: validate_audio_url passes exactly when validate_url passes for the
\* same text and the path of the URL (the query string apart) ends in .mp3 or
\* .wav in any case; otherwise it fails with validate_url's reason when
\* validate_url fails and with the audio-extension reason when it passes.
C16_AudioUrlIffUrlAndExtension ==
    pc = "checked" =>
        LET url == inputs.audio_url
        IN /\ checked.is_valid <=>
                 (validate_url(url).is_valid /\ PathEndsInAudio(url))
           /\ ~checked.is_valid =>
                 checked.error = IF ~validate_url(url).is_valid
                                 THEN validate_url(url).error
                                 ELSE <<"Audio URL must end with .mp3 or .wav">>

(***************************************************************************)
(* validate_audio_base64                                                   *)
(***************************************************************************)
\* the least decoded length accepted
AudioMinBytes == 100

\* the pieces that are characters of the standard Base64 alphabet
B64Alphabet == {"A", "Q", "/", "+", "9"}

B64Error(reason) == [ok |-> FALSE, n |-> 0, reason |-> reason]
B64Bytes(n) == [ok |-> TRUE, n |-> n, reason |-> ""]

\* one iteration of the loop, in strict mode, on the character s[i]
B64Step(st, s, i) ==
    IF st.stop # "" THEN st
    ELSE IF s[i] = "="
    THEN IF st.quad_pos >= 2 /\ st.quad_pos + st.pads + 1 >= 4
         THEN [st EXCEPT !.stop = IF i < Len(s) THEN "Excess data after padding"
                                  ELSE "done"]
         ELSE [st EXCEPT !.started = TRUE,
                         !.pads = IF st.quad_pos >= 2 THEN st.pads + 1 ELSE st.pads]
    ELSE IF s[i] \notin B64Alphabet
    THEN [st EXCEPT !.stop = "Only base64 data is allowed"]
    ELSE IF st.started
    THEN [st EXCEPT !.stop = "Discontinuous padding not allowed"]
    ELSE [st EXCEPT !.quad_pos = (st.quad_pos + 1) % 4,
                    !.pads = 0,
                    !.n = IF st.quad_pos >= 1 THEN st.n + 1 ELSE st.n]

RECURSIVE B64Loop(_, _, _, _)
\* the iterations lo..hi of the loop, in order, from the state st
B64Loop(st, s, lo, hi) ==
    IF lo > hi THEN st
    ELSE IF lo = hi THEN B64Step(st, s, lo)
    ELSE LET mid == (lo + hi) \div 2
             half == B64Loop(st, s, lo, mid)
         IN IF half.stop # "" THEN half ELSE B64Loop(half, s, mid + 1, hi)

\* base64.b64decode(s, validate=True): the number of bytes decoded, or the
\* reason of the binascii.Error raised
b64decode(s) ==
    IF s # << >> /\ s[1] = "="
    THEN B64Error("Leading padding not allowed")
    ELSE LET \* the state of the loop: quad_pos data characters of the current
             \* group of four are read, pads padding characters were counted,
             \* started tells that padding has begun, n bytes are decoded; stop
             \* is "" while the loop runs, "done" once the padding ended the
             \* data, else the error
             B64Start == [quad_pos |-> 0, pads |-> 0, started |-> FALSE, n |-> 0,
                          stop |-> ""]
             end == B64Loop(B64Start, s, 1, Len(s))
         IN IF end.stop \notin {"", "done"} THEN B64Error(end.stop)
            ELSE IF end.stop = "" /\ end.quad_pos = 1
            THEN B64Error("number of data characters cannot be 1 more than a multiple of 4")
            ELSE IF end.stop = "" /\ end.quad_pos # 0
            THEN B64Error("Incorrect padding")
            ELSE B64Bytes(end.n)

validate_audio_base64_AtMost(base64_string) ==
    IF base64_string = << >> \/ strip(base64_string) = << >>
    THEN Fail(<<"Base64 audio data cannot be empty">>)
    ELSE LET cleaned == strip(base64_string)
             decoded == b64decode(cleaned)
         IN IF cleaned[1] = "data:"
            THEN Fail(<<"Remove data URI prefix (e.g., 'data:audio/mp3;base64,'). Provide only the Base64 content.">>)
            ELSE IF ~decoded.ok
            THEN Fail(<<"Invalid Base64 encoding: ", decoded.reason>>)
            ELSE IF decoded.n <= AudioMinBytes
            THEN Fail(<<"Base64 data seems too short for an audio file">>)
            ELSE Pass

validate_audio_base64(base64_string) ==
    IF base64_string = << >> \/ strip(base64_string) = << >>
    THEN Fail(<<"Base64 audio data cannot be empty">>)
    ELSE LET cleaned == strip(base64_string)
             decoded == b64decode(cleaned)
         IN IF cleaned[1] = "data:"
            THEN Fail(<<"Remove data URI prefix (e.g., 'data:audio/mp3;base64,'). Provide only the Base64 content.">>)
            ELSE IF ~decoded.ok
            THEN Fail(<<"Invalid Base64 encoding: ", decoded.reason>>)
            ELSE IF decoded.n < AudioMinBytes
            THEN Fail(<<"Base64 data seems too short for an audio file">>)
            ELSE Pass

(***************************************************************************)
(* Base64 texts: the encoding of a blob of zero bytes, with or without a   *)
(* prefix, a tail and blanks around                                        *)
(***************************************************************************)
\* base64.b64encode(bytes(n))
B64Zeros(n) ==
    [i \in 1..(4 * (n \div 3)) |-> "A"]
        \o (IF n % 3 = 1 THEN <<"A", "A", "=", "=">>
            ELSE IF n % 3 = 2 THEN <<"A", "A", "A", "=">> ELSE << >>)

BlobSizes ==
    (0..3) \cup {50, 150} \cup ((AudioMinBytes - Slack)..(AudioMinBytes + Slack))

Base64Texts ==
    {lead \o prefix \o B64Zeros(n) \o tail \o trail :
        lead   \in {<< >>, <<" ">>},
        prefix \in {<< >>, <<"data:">>, <<"DATA:">>},
        n      \in BlobSizes,
        tail   \in {<< >>, <<"!">>, <<"=">>, <<"Q">>, <<"Q", "Q">>, <<" ", "Q">>},
        trail  \in {<< >>, <<" ">>}}

(***************************************************************************)
(* validate_audio_base64 applied to one text                               *)
(***************************************************************************)
InitB64 ==
    /\ pc = "ready"
    /\ inputs \in [audio_base64 : Base64Texts]
    /\ checked = NoValue
    /\ Unused

ValidateAudioBase64 ==
    /\ pc = "ready"
    /\ checked' = validate_audio_base64(inputs.audio_base64)
    /\ pc' = "checked"
    /\ UNCHANGED <<self, args, clock, net, payload, result, status_code, status_info,
                   response, report, inputs, validation_errors>>

NextB64 == ValidateAudioBase64

SpecB64 == InitB64 /\ [][NextB64]_vars

\* the verdict of the order of checks of C15 on the text: empty, data-URI
\* prefix, invalid encoding, too short, else pass
Base64Verdict(text) ==
    IF \A i \in 1..Len(text) : IsSpace(text[i]) THEN "empty"
    ELSE IF text[1] = "data:" THEN "prefix"
    ELSE IF ~b64decode(text).ok THEN "invalid"
    ELSE IF b64decode(text).n < AudioMinBytes THEN "short"
    ELSE "pass"

\* the verdict that the result of validate_audio_base64 expresses
VerdictOf(r) ==
    IF r.is_valid THEN "pass"
    ELSE IF r.error = <<"Base64 audio data cannot be empty">> THEN "empty"
    ELSE IF r.error[1] = "Invalid Base64 encoding: " THEN "invalid"
    ELSE IF r.error = <<"Base64 data seems too short for an audio file">> THEN "short"
    ELSE "prefix"

\* C15 as stated: the checks are decided on the input as given, in the order
\* blank, begins with data:, not strictly valid Base64, decoded length below
\* 100 bytes, and every other input passes.
C15_ChecksOnInputAsGiven ==
    pc = "checked" => VerdictOf(checked) = Base64Verdict(inputs.audio_base64)

\* C15: validate_audio_base64 decides in this order, on the input with its
\* leading and trailing whitespace removed, and returns the first failure:
\* blank fails as empty; beginning with data: fails as data-URI prefix
\* whatever follows; not strictly valid standard Base64 fails as invalid
\* encoding; a decoded length below 100 bytes fails as too short; every other
\* input passes.  So the encoding of exactly 100 bytes passes, that of 50
\* bytes fails as too short and that of 150 bytes passes.
C15_ChecksOnStrippedInput ==
    pc = "checked" =>
        LET given == strip(inputs.audio_base64)
        IN /\ VerdictOf(checked) = Base64Verdict(given)
           /\ checked.is_valid = (checked.error = << >>)
           /\ given = B64Zeros(AudioMinBytes) => checked.is_valid
           /\ given = B64Zeros(50) => VerdictOf(checked) = "short"
           /\ given = B64Zeros(150) => checked.is_valid
           /\ given = <<"data:">> \o B64Zeros(150) => VerdictOf(checked) = "prefix"

\* the encoding of exactly 100 bytes, with whitespace around, was validated
\* and passed
C15_Witness ==
    /\ pc = "checked"
    /\ inputs.audio_base64 = <<" ">> \o B64Zeros(AudioMinBytes) \o <<" ">>
    /\ checked.is_valid

(***************************************************************************)
(* The test button of the application: validate_inputs, then the test and  *)
(* the display of its result                                               *)
(***************************************************************************)
\* one entry of the list of errors: f"{label}: {error}", none when valid
ErrorEntry(label, r) == IF r.is_valid THEN << >> ELSE <<(<<label>> \o r.error)>>

\* validate_inputs leaving at the first failure
validate_inputs_FirstOnly(i) ==
    LET audio == IF i.audio_mode = "url"
                 THEN ErrorEntry("Audio URL: ", validate_audio_url(i.audio_url))
                 ELSE ErrorEntry("Audio Base64: ", validate_audio_base64(i.audio_base64))
        all   == ErrorEntry("Endpoint URL: ", validate_url(i.endpoint_url))
                    \o ErrorEntry("API Key: ", validate_api_key(i.api_key))
                    \o audio
                    \o ErrorEntry("Language: ", validate_language(i.language))
    IN SubSeq(all, 1, Min(1, Len(all)))

validate_inputs(i) ==
    LET audio == IF i.audio_mode = "url"
                 THEN ErrorEntry("Audio URL: ", validate_audio_url(i.audio_url))
                 ELSE ErrorEntry("Audio Base64: ", validate_audio_base64(i.audio_base64))
    IN ErrorEntry("Endpoint URL: ", validate_url(i.endpoint_url))
           \o ErrorEntry("API Key: ", validate_api_key(i.api_key))
           \o audio
           \o ErrorEntry("Language: ", validate_language(i.language))

\* key in x, for a str key and a value x that is not falsy; "TypeError" when
\* x is not a container
Contains(x, key) ==
    CASE x.t = "dict" -> IF key \in DOMAIN x.items THEN "yes" ELSE "no"
      [] x.t = "list" -> IF \E n \in DOMAIN x.items : x.items[n] = Str(<<key>>)
                         THEN "yes" ELSE "no"
      [] x.t = "str"  -> IF \E n \in DOMAIN x.v : x.v[n] = key THEN "yes" ELSE "no"
      [] OTHER        -> "TypeError"

\* render_metrics: the exception that leaves it, "" when it returns
render_metrics(latency_ms, code, response_data) ==
    IF Falsy(response_data) THEN ""
    ELSE LET has == Contains(response_data, "confidence")
         IN IF has = "TypeError" THEN "TypeError"
            ELSE IF has = "yes" /\ response_data.t # "dict" THEN "TypeError"
            ELSE IF has = "yes" /\ ~float(response_data.items["confidence"]).ok
            THEN float(response_data.items["confidence"]).exc
            ELSE IF response_data.t # "dict" THEN "AttributeError"
            ELSE ""

\* render_explanation: the exception that leaves it, "" when it returns
render_explanation(response_data) ==
    IF Falsy(response_data) THEN ""
    ELSE LET has == Contains(response_data, "explanation")
         IN IF has = "TypeError" \/ (has = "yes" /\ response_data.t # "dict")
            THEN "TypeError" ELSE ""

\* render_detected_language: the exception that leaves it, "" when it returns
render_detected_language(response_data) ==
    IF Falsy(response_data) THEN ""
    ELSE LET has == Contains(response_data, "language")
         IN IF has = "TypeError" \/ (has = "yes" /\ response_data.t # "dict")
            THEN "TypeError"
            ELSE IF has = "yes" /\ response_data.items["language"].t \in {"list", "dict"}
            THEN "TypeError"
            ELSE ""

\* validate_response_schema on any value: a value that is not a mapping
\* passes the membership tests (it holds none of the keys, in the values of
\* the model) and fails at response.keys(), or at the first membership test
\* when it is no container
ValidateValue(x) ==
    CASE x.t = "dict"          -> validate_response_schema(x.items)
      [] x.t \in {"list", "str"} -> Escaped("AttributeError")
      [] OTHER                 -> Escaped("TypeError")

\* what the widgets of render_input_section can hold: the text field of the
\* audio mode that is not selected stays empty, and the language is one of
\* the options of the select box
AppInputs ==
    LET GoodEndpoint == <<"https", ":", "/", "/", "x", ".com">>
    IN
    {[endpoint_url |-> e, api_key |-> k, audio_mode |-> a.mode,
      audio_url |-> a.url, audio_base64 |-> a.b64, language |-> l, message |-> << >>] :
        e \in {<< >>, GoodEndpoint, <<"ftp", ":", "/", "/", "x", ".com">>},
        k \in {<< >>, <<"k", " ">>},
        a \in {[mode |-> "url", url |-> u, b64 |-> << >>] :
                  u \in {<< >>, GoodEndpoint \o <<"/", "a", ".mp3">>,
                         GoodEndpoint \o <<"/", "a">>}}
              \cup {[mode |-> "base64", url |-> << >>, b64 |-> b] :
                  b \in {<< >>, B64Zeros(50), B64Zeros(AudioMinBytes)}},
        l \in Languages}

\* what response.json() gives to the application
AppJson ==
    LET Conforming ==
            "status" :> Str(<<"success">>) @@ "classification" :> Str(<<"AI_GENERATED">>)
                @@ "confidence" :> Num("float", 82, -2) @@ "explanation" :> Str(<<"x">>)
    IN
    JsonOutcomes
        \cup {[t |-> "dict", items |-> Conforming]}
        \cup {[t |-> "dict", items |-> ("confidence" :> c) @@ Conforming] :
                  c \in {Str(<<"abc">>), Num("int", 2, FloatMaxExp10), None}}
        \cup {Num("int", 0, 0), Num("int", 5, 0), Str(<<"a">>)}

AppOutcomes ==
    [kind : {"response"}, cls : {""}, status_code : {200, 404, 500},
     text : {Text(1)}, json : AppJson, elapsed_us : {123455}]
    \cup [kind : {"raise"}, cls : ExceptionClasses, status_code : {0},
          text : {Text(1)}, json : {None}, elapsed_us : {0}]

InitApp ==
    /\ pc = "idle"
    /\ inputs \in AppInputs
    /\ args \in [timeout : Timeouts]
    /\ self = NoValue
    /\ clock \in Clocks
    /\ net = NoValue
    /\ payload = NoValue
    /\ result = NoValue
    /\ status_code = 0
    /\ status_info = NoValue
    /\ response = NoValue
    /\ report = NoValue
    /\ checked = NoValue
    /\ validation_errors = NoValue

\* the button is pressed: validate_inputs, and the errors are shown if any
Press ==
    /\ pc = "idle"
    /\ validation_errors' = validate_inputs(inputs)
    /\ pc' = IF validation_errors' # << >> THEN "rejected" ELSE "validated"
    /\ UNCHANGED <<self, args, clock, net, payload, result, status_code, status_info,
                   response, report, inputs, checked>>

\* tester = APITester(...)
CreateTester ==
    /\ pc = "validated"
    /\ self' = APITester(inputs.endpoint_url, inputs.api_key, args.timeout)
    /\ pc' = "created"
    /\ UNCHANGED <<args, clock, net, payload, result, status_code, status_info,
                   response, report, inputs, checked, validation_errors>>

\* result = tester.get_result(...)
RunTest ==
    /\ pc = "created"
    /\ \E out \in AppOutcomes :
          LET r == get_result(self, inputs, clock, out)
          IN /\ net' = out
             /\ payload' = r.sent
             /\ result' = r.value
             /\ pc' = IF r.returned THEN "tested" ELSE "raised"
    /\ UNCHANGED <<self, args, clock, status_code, status_info, response, report,
                   inputs, checked, validation_errors>>

\* status_info = interpret_status_code(result.status_code), shown as the verdict
InterpretResult ==
    /\ pc = "tested"
    /\ status_code' = result.status_code
    /\ status_info' = interpret_status_code(result.status_code)
    /\ pc' = "interpreted"
    /\ UNCHANGED <<self, args, clock, net, payload, result, response, report,
                   inputs, checked, validation_errors>>

\* render_metrics, render_explanation, render_detected_language: an exception
\* of one of them ends the run, and report keeps it
ShowMetrics ==
    /\ pc = "interpreted"
    /\ LET m == render_metrics(result.latency_ms, result.status_code, result.response_data)
           x == render_explanation(result.response_data)
           l == render_detected_language(result.response_data)
           exc == IF m # "" THEN m ELSE IF x # "" THEN x ELSE l
       IN /\ pc' = IF exc = "" THEN "shown" ELSE "raised"
          /\ report' = IF exc = "" THEN report ELSE Escaped(exc)
    /\ UNCHANGED <<self, args, clock, net, payload, result, status_code, status_info,
                   response, inputs, checked, validation_errors>>

\* if result.response_data: validate_response_schema(result.response_data);
\* response is the value it was called with
ValidateResponse ==
    /\ pc = "shown"
    /\ IF Falsy(result.response_data)
       THEN /\ pc' = "done"
            /\ UNCHANGED <<response, report>>
       ELSE /\ response' = result.response_data
            /\ report' = ValidateValue(result.response_data)
            /\ pc' = IF report'.raised = "" THEN "done" ELSE "raised"
    /\ UNCHANGED <<self, args, clock, net, payload, result, status_code, status_info,
                   inputs, checked, validation_errors>>

NextApp ==
    Press \/ CreateTester \/ RunTest \/ InterpretResult \/ ShowMetrics \/ ValidateResponse

SpecApp == InitApp /\ [][NextApp]_vars

\* C13: on a press of the test button every applicable validator runs
\* (endpoint URL, API key, the audio validator of the selected mode,
\* language) and every failure is collected, one entry per failed field in
\* that order; when the list is not empty no APITester is created and no
\* request is issued; a request is sent only after every validator passed.
C13_AllFailuresCollectedBeforeRequest ==
    LET i == inputs
        \* the validators that apply, in the order of the fields
        checks ==
            <<[label |-> "Endpoint URL: ", r |-> validate_url(i.endpoint_url)],
              [label |-> "API Key: ", r |-> validate_api_key(i.api_key)],
              IF i.audio_mode = "url"
              THEN [label |-> "Audio URL: ", r |-> validate_audio_url(i.audio_url)]
              ELSE [label |-> "Audio Base64: ",
                    r |-> validate_audio_base64(i.audio_base64)],
              [label |-> "Language: ", r |-> validate_language(i.language)]>>
        FieldFailed(c) == ~c.r.is_valid
        failed == SelectSeq(checks, FieldFailed)
    IN /\ pc # "idle" =>
              /\ Len(validation_errors) = Len(failed)
              /\ \A n \in 1..Len(failed) :
                    validation_errors[n] = <<failed[n].label>> \o failed[n].r.error
       /\ (pc # "idle" /\ validation_errors # << >>) =>
              /\ pc = "rejected"
              /\ self = NoValue
              /\ net = NoValue
              /\ payload = NoValue
       /\ (self # NoValue \/ net # NoValue) =>
              /\ validation_errors = << >>
              /\ \A n \in 1..4 : checks[n].r.is_valid

\* a press collected the failures of three fields and nothing was sent
C13_Witness ==
    /\ pc = "rejected"
    /\ Len(validation_errors) = 3
    /\ validation_errors[1][1] = "Endpoint URL: "
    /\ validation_errors[3][1] = "Audio Base64: "
    /\ net = NoValue

\* C14: every transport error (timeout, connection failure, any other fault
\* of the transport) is shown as a FAIL verdict: for every TestResult that
\* send_request produces on a failure path, interpret_status_code of its
\* status_code has the verdict FAIL.
C14_TransportErrorIsFail ==
    (status_info # NoValue /\ net.kind = "raise") => status_info.verdict = "FAIL"

\* C17: in every TestResult, response_data is None or a JSON mapping, and it
\* is present only when an HTTP response was received whose body decoded as
\* JSON; hence every value passed to validate_response_schema is a mapping
\* on which the validator completes without raising.
C17_BodyIsNoneOrMapping ==
    /\ result # NoValue =>
          /\ result.response_data.t \in {"NoneType", "dict"}
          /\ result.response_data # None =>
                 net.kind = "response" /\ net.json.t # "JSONDecodeError"
    /\ response # NoValue => response.t = "dict" /\ report.raised = ""

\* C18: the steps after send_request are not gated by the success flag: the
\* status interpreter runs for every TestResult, and validate_response_schema
\* runs and its outcome is reported for every TestResult whose parsed body is
\* not None, with success false too and for the empty mapping too.
C18_ValidatorRunsOnEveryBody ==
    pc \in {"done", "raised"} =>
        /\ status_info = interpret_status_code(result.status_code)
        /\ result.response_data # None =>
               /\ response = result.response_data
               /\ report = ValidateValue(result.response_data)
               /\ report.raised = ""
====
